---------------------------- MODULE Spec2Model ----------------------------
(***************************************************************************)
(* A model of tools/eugene.py, the build-orchestration script of eugene.   *)
(*                                                                         *)
(* Strings that the script inspects character by character (the command    *)
(* name, the sub-arguments, the registry names) are sequences of           *)
(* one-character strings, so that `in`, len(), lower() and the Levenshtein *)
(* distance are computed, not assumed.  Strings that are only passed on    *)
(* (program names, environment values, what the user types at a prompt)    *)
(* are TLA+ strings.                                                       *)
(*                                                                         *)
(* Modelling assumptions:                                                  *)
(*   - assert statements are enabled (the script is not run with -O);      *)
(*   - the colorama/pylev imports at the top of the file succeed;          *)
(*   - subprocess.run finds its executable; its exit status is never read  *)
(*     by the script, so it is not part of the state;                      *)
(*   - subprocess.check_call either succeeds or raises.                    *)
(***************************************************************************)
EXTENDS Integers, Sequences, FiniteSets, TLC

VARIABLES
    argv,            \* sys.argv[1:], as typed
    cmd_line,        \* parse's cmd_line: the lower-cased argv[1:]
    cmd,             \* parse's cmd (of the current call of parse)
    cmd_args,        \* parse's cmd_args
    cmd_argc,        \* parse's cmd_argc
    pc,              \* position of the single thread of control
    stack,           \* return positions of the calls in progress
    retry_avail_,    \* the global retry_avail_
    environ,         \* os.environ restricted to CC, CXX, EUGENE_BUILD_TESTS
    test,            \* do_build's parameter test
    doc,             \* do_build's parameter doc
    forced,          \* parse's local forced
    kind,            \* parse's local kind
    is_kind,         \* do_clean's parameter is_kind
    compiler_matrix, \* do_config_cmd's parameter
    config_ok,       \* the value do_config_cmd returned
    actual_cmd,      \* parse's local actual_cmd
    exit_code,       \* the status passed to sys.exit
    log,             \* history: external effects, in order
    calls,           \* history: the calls of parse, in order
    offered          \* history: the candidates autocomplete asked about

vars == <<argv, cmd_line, cmd, cmd_args, cmd_argc, pc, stack, retry_avail_,
          environ, test, doc, forced, kind, is_kind, compiler_matrix,
          config_ok, actual_cmd, exit_code, log, calls, offered>>

-----------------------------------------------------------------------------
(* Bounds of the inputs.                                                   *)

\* most sub-arguments following the command name
MaxArgs == 2
\* longest generated command token
MaxTokenLen == 3

-----------------------------------------------------------------------------
(* The command names and sub-argument tokens, as character sequences.      *)

build    == <<"b","u","i","l","d">>
config   == <<"c","o","n","f","i","g">>
clean    == <<"c","l","e","a","n">>
mrproper == <<"m","r","p","r","o","p","e","r">>
lint     == <<"l","i","n","t">>
version  == <<"v","e","r","s","i","o","n">>
s_test   == <<"t","e","s","t">>
s_doc    == <<"d","o","c">>
s_run    == <<"r","u","n">>
s_up     == <<"u","p">>
s_force  == <<"f","o","r","c","e">>
s_kind   == <<"k","i","n","d">>

\* the names parse compares cmd with
KnownCmds == {build, config, s_test, clean, mrproper, lint, s_doc, version}

\* AvailableParams, the field of each entry, in order
AvailableParams == <<build, s_test, lint, s_doc, clean>>

SeqsUpTo(S, n) == UNION {[1..k -> S] : k \in 0..n}

\* characters of the generated command tokens
TokenAlphabet == {"d", "o", "c", "X"}

\* further mistyped command names
MoreTokens ==
    { <<"t","i","n","t">>, <<"b","u","i","l">>, <<"B","i","u","l","d">>,
      <<"t","e","s">>, <<"l","n","t">>, <<"c","l","e","a">>,
      <<"x","y","z">>, <<"t","e","s","t","t">> }

RawCmds == KnownCmds \cup SeqsUpTo(TokenAlphabet, MaxTokenLen) \cup MoreTokens

\* the sub-arguments tried
SubArgs ==
    { s_test, s_test \o s_doc, s_run \o s_test, s_force, s_kind,
      s_kind \o s_force, <<"x">> }

Argvs == {<<>>} \cup
         { <<c>> \o a : c \in RawCmds, a \in SeqsUpTo(SubArgs, MaxArgs) }

\* what the user may type at a prompt
Answers == {"", "y", "Y", "n"}

-----------------------------------------------------------------------------
(* Pure helpers.                                                           *)

\* str.lower() on one character
LowerChar(c) ==
    CASE c = "X" -> "x"
      [] c = "D" -> "d"
      [] c = "B" -> "b"
      [] OTHER   -> c

\* str.lower() on a character sequence
lower(s) == [i \in 1..Len(s) |-> LowerChar(s[i])]

\* str.lower() on what the user typed
LowerAnswer(a) == IF a = "Y" THEN "y" ELSE IF a = "N" THEN "n" ELSE a

\* Python's `sub in s` on strings
Contains(sub, s) ==
    \E i \in 0..(Len(s) - Len(sub)) : SubSeq(s, i + 1, i + Len(sub)) = sub

Min3(a, b, c) ==
    IF a <= b THEN (IF a <= c THEN a ELSE c) ELSE (IF b <= c THEN b ELSE c)

RECURSIVE LevRow(_, _, _, _, _)
\* one row of the edit-distance table: prev and cur hold columns 0..Len(b)
LevRow(prev, ch, b, j, cur) ==
    IF j > Len(b) THEN cur
    ELSE LET cost == IF ch = b[j] THEN 0 ELSE 1
             v == Min3(prev[j + 1] + 1, cur[j] + 1, prev[j] + cost)
         IN LevRow(prev, ch, b, j + 1, Append(cur, v))

RECURSIVE LevRows(_, _, _, _)
LevRows(a, b, i, prev) ==
    IF i > Len(a) THEN prev[Len(b) + 1]
    ELSE LevRows(a, b, i + 1, LevRow(prev, a[i], b, 1, <<i>>))

\* pylev.classic_levenshtein: insert, delete, substitute, each of cost 1
lev(a, b) == LevRows(a, b, 1, [j \in 1..(Len(b) + 1) |-> j - 1])

Event(k, w, v) == [kind |-> k, what |-> w, val |-> v]

None == [kind |-> "None", val |-> <<>>]
False == [kind |-> "False", val |-> <<>>]
Str(s) == [kind |-> "str", val |-> s]
\* Python truthiness of autocomplete's result
Truthy(v) == v.kind = "str" /\ v.val # <<>>

InitEnviron == [CC |-> "", CXX |-> "", EUGENE_BUILD_TESTS |-> ""]

Init ==
    /\ argv \in Argvs
    /\ cmd_line = <<>>
    /\ cmd = <<>>
    /\ cmd_args = <<>>
    /\ cmd_argc = 0
    /\ pc = "main"
    /\ stack = <<>>
    /\ retry_avail_ = TRUE
    /\ environ = InitEnviron
    /\ test = FALSE
    /\ doc = FALSE
    /\ forced = FALSE
    /\ kind = FALSE
    /\ is_kind = FALSE
    /\ compiler_matrix = <<"", "">>
    /\ config_ok = FALSE
    /\ actual_cmd = None
    /\ exit_code = 0
    /\ log = <<>>
    /\ calls = <<>>
    /\ offered = <<>>

\* __main__
Main ==
    /\ pc = "main"
    /\ IF Len(argv) < 1
       THEN /\ log' = Append(log, Event("print", "usage", ""))
            /\ pc' = "exited"
            /\ exit_code' = 0
            /\ UNCHANGED <<cmd_line, cmd, cmd_args, cmd_argc>>
       ELSE LET args == [i \in 1..Len(argv) |-> lower(argv[i])]
            IN /\ cmd_line' = args
               /\ cmd' = args[1]
               /\ cmd_args' = Tail(args)
               /\ cmd_argc' = Len(args) - 1
               /\ pc' = "parse"
               /\ UNCHANGED <<log, exit_code>>
    /\ UNCHANGED <<argv, stack, retry_avail_, environ, test, doc, forced, kind,
                   is_kind, compiler_matrix, config_ok, actual_cmd, calls,
                   offered>>

\* the pair do_config tries first, and the one it falls back to
PrimaryCompilers == <<"gcc-11", "g++-11">>
FallbackCompilers == <<"gcc", "g++">>

\* variant of ParsePrecondition: the bound of the assertion off by one
ParsePreconditionLoose(argc) == argc <= 2

\* parse's first statement: assert cmd_argc <= 1
ParsePrecondition(argc) == argc <= 1

\* variant of IsClean: the alias mrproper forgotten
IsCleanOnly(c) == c = clean

\* cmd == 'clean' or cmd == 'mrproper'
IsClean(c) == c = clean \/ c = mrproper

\* variant of Forced: no sub-argument does not count as force
ForcedOnlyWhenAsked(argc, args) == argc = 1 /\ Contains(s_force, args[1])

\* parse's local forced
Forced(argc, args) == (argc = 1 /\ Contains(s_force, args[1])) \/ argc = 0

\* parse's local kind
Kind(argc, args) == argc = 1 /\ Contains(s_kind, args[1])

\* the flag parse passes to do_clean
AskFirst(k, f) == k /\ ~f

\* parse, up to the call it makes
Parse ==
    /\ pc = "parse"
    /\ calls' = Append(calls, [cmd |-> cmd, cmd_args |-> cmd_args,
                               cmd_argc |-> cmd_argc])
    /\ IF ~ParsePrecondition(cmd_argc)
       THEN /\ pc' = "aborted"
            /\ UNCHANGED <<stack, test, doc, forced, kind, is_kind, log>>
       ELSE IF cmd = build
       THEN /\ test' = (cmd_argc = 1 /\ Contains(s_test, cmd_args[1]))
            /\ doc' = (cmd_argc = 1 /\ Contains(s_doc, cmd_args[1]))
            /\ pc' = "do_build"
            /\ stack' = <<"parse_after_build">>
            /\ UNCHANGED <<forced, kind, is_kind, log>>
       ELSE IF cmd = config
       THEN /\ IF cmd_argc = 0
               THEN pc' = "do_config" /\ stack' = <<"done">>
               ELSE pc' = "aborted" /\ stack' = stack
            /\ UNCHANGED <<test, doc, forced, kind, is_kind, log>>
       ELSE IF cmd = s_test
       THEN /\ test' = TRUE
            /\ doc' = FALSE
            /\ pc' = "do_build"
            /\ stack' = <<"parse_after_build">>
            /\ UNCHANGED <<forced, kind, is_kind, log>>
       ELSE IF IsClean(cmd)
       THEN /\ forced' = Forced(cmd_argc, cmd_args)
            /\ kind' = Kind(cmd_argc, cmd_args)
            /\ is_kind' = AskFirst(kind', forced')
            /\ pc' = "do_clean"
            /\ UNCHANGED <<stack, test, doc, log>>
       ELSE IF cmd = lint
       THEN /\ pc' = IF cmd_argc = 0 THEN "do_lint" ELSE "aborted"
            /\ UNCHANGED <<stack, test, doc, forced, kind, is_kind, log>>
       ELSE IF cmd = s_doc
       THEN /\ test' = FALSE
            /\ doc' = TRUE
            /\ pc' = "do_build"
            /\ stack' = <<"parse_after_build">>
            /\ UNCHANGED <<forced, kind, is_kind, log>>
       ELSE IF cmd = version
       THEN /\ log' = Append(log, Event("print", "Eugene 0.01", ""))
            /\ pc' = "done"
            /\ UNCHANGED <<stack, test, doc, forced, kind, is_kind>>
       ELSE /\ log' = Append(log, Event("print", "usage", ""))
            /\ pc' = "autocomplete"
            /\ UNCHANGED <<stack, test, doc, forced, kind, is_kind>>
    /\ UNCHANGED <<argv, cmd_line, cmd, cmd_args, cmd_argc, retry_avail_,
                   environ, compiler_matrix, config_ok, actual_cmd, exit_code,
                   offered>>

\* variant of Qualifies: the boundary distance rejected
QualifiesStrictly(lev_, arg) == 2 * lev_ < Len(arg)

\* lev_ <= required, with required = 0.5 * len(arg)
Qualifies(lev_, arg) == 2 * lev_ <= Len(arg)

RECURSIVE FirstMatch(_, _)
\* autocomplete's loop: the index of the first avail_arg that qualifies, or 0
FirstMatch(arg, i) ==
    IF i > Len(AvailableParams) THEN 0
    ELSE IF Qualifies(lev(arg, AvailableParams[i]), arg) THEN i
    ELSE FirstMatch(arg, i + 1)

\* variant of GateAfterAttempt: the gate left as it was
GateLeftOpen(g) == g

\* retry_avail_ = not retry_avail_
GateAfterAttempt(g) == ~g

\* input().lower() == 'y'
Accepted(ans) == LowerAnswer(ans) = "y"

\* autocomplete(cmd), called from parse's else branch
Autocomplete ==
    /\ pc = "autocomplete"
    /\ pc' = "parse_retry"
    /\ IF ~retry_avail_
       THEN /\ actual_cmd' = False
            /\ log' = Append(log, Event("autocomplete", "closed", ""))
            /\ UNCHANGED <<retry_avail_, offered>>
       ELSE /\ retry_avail_' = GateAfterAttempt(retry_avail_)
            /\ LET m == FirstMatch(cmd, 1)
               IN IF m = 0
                  THEN /\ actual_cmd' = None
                       /\ log' = Append(log, Event("autocomplete", "scan", ""))
                       /\ UNCHANGED offered
                  ELSE \E ans \in Answers :
                       /\ offered' = Append(offered, AvailableParams[m])
                       /\ log' = log \o << Event("autocomplete", "scan", ""),
                                           Event("prompt", "Proceed with", ""),
                                           Event("input", ans, "") >>
                       /\ actual_cmd' = IF Accepted(ans)
                                        THEN Str(AvailableParams[m])
                                        ELSE None
    /\ UNCHANGED <<argv, cmd_line, cmd, cmd_args, cmd_argc, stack, environ,
                   test, doc, forced, kind, is_kind, compiler_matrix,
                   config_ok, exit_code, calls>>

\* variant of RetryCall: the sub-arguments dropped on the recursive call
RetryCallWithoutArgs(line, actual, args, argc) ==
    [cmd_line |-> line, cmd |-> actual, cmd_args |-> << >>, cmd_argc |-> 0]

\* the arguments of parse's recursive call
RetryCall(line, actual, args, argc) ==
    [cmd_line |-> line, cmd |-> actual, cmd_args |-> args, cmd_argc |-> argc]

\* parse's else branch after autocomplete returned
ParseRetry ==
    /\ pc = "parse_retry"
    /\ IF Truthy(actual_cmd)
       THEN LET call == RetryCall(cmd_line, actual_cmd.val, cmd_args, cmd_argc)
            IN /\ cmd_line' = call.cmd_line
               /\ cmd' = call.cmd
               /\ cmd_args' = call.cmd_args
               /\ cmd_argc' = call.cmd_argc
               /\ pc' = "parse"
       ELSE /\ pc' = "done"
            /\ UNCHANGED <<cmd_line, cmd, cmd_args, cmd_argc>>
    /\ UNCHANGED <<argv, stack, retry_avail_, environ, test, doc, forced, kind,
                   is_kind, compiler_matrix, config_ok, actual_cmd, exit_code,
                   log, calls, offered>>

\* do_build, up to its call of do_config
DoBuild ==
    /\ pc = "do_build"
    /\ pc' = "do_config"
    /\ stack' = <<"do_build_run">> \o stack
    /\ UNCHANGED <<argv, cmd_line, cmd, cmd_args, cmd_argc, retry_avail_,
                   environ, test, doc, forced, kind, is_kind, compiler_matrix,
                   config_ok, actual_cmd, exit_code, log, calls, offered>>

\* do_config, up to its first call of do_config_cmd
DoConfig ==
    /\ pc = "do_config"
    /\ \E created \in BOOLEAN :
         log' = Append(log, Event("mkdir", "build/",
                                  IF created THEN "created" ELSE "exists"))
    /\ compiler_matrix' = PrimaryCompilers
    /\ pc' = "do_config_cmd"
    /\ UNCHANGED <<argv, cmd_line, cmd, cmd_args, cmd_argc, stack,
                   retry_avail_, environ, test, doc, forced, kind, is_kind,
                   config_ok, actual_cmd, exit_code, calls, offered>>

\* what do_config_cmd's try block runs when conan install and cmake end as given
ConfigSteps(conan_ok, cmake_ok) ==
    IF ~conan_ok
    THEN << Event("check_call", "conan", "fail") >>
    ELSE << Event("check_call", "conan", "ok"), Event("run", "conan", "") >>
         \o (IF ~cmake_ok
             THEN << Event("check_call", "cmake", "fail") >>
             ELSE << Event("check_call", "cmake", "ok"),
                     Event("run", "cmake", "") >>)

\* do_config_cmd(compiler_matrix)
DoConfigCmd ==
    /\ pc = "do_config_cmd"
    /\ environ' = [environ EXCEPT !.CC = compiler_matrix[1],
                                  !.CXX = compiler_matrix[2]]
    /\ \E outcome \in {"conan_fails", "cmake_fails", "ok"} :
         LET conan_ok == outcome # "conan_fails"
             cmake_ok == outcome = "ok"
         IN /\ log' = log \o << Event("setenv", "CC", compiler_matrix[1]),
                                Event("setenv", "CXX", compiler_matrix[2]) >>
                          \o ConfigSteps(conan_ok, cmake_ok)
            /\ config_ok' = (conan_ok /\ cmake_ok)
    /\ pc' = "do_config_result"
    /\ UNCHANGED <<argv, cmd_line, cmd, cmd_args, cmd_argc, stack,
                   retry_avail_, test, doc, forced, kind, is_kind,
                   compiler_matrix, actual_cmd, exit_code, calls, offered>>

\* variant of ConfigVerdict: no second pair is tried
ConfigVerdictNoFallback(ok, matrix) == IF ok THEN "return" ELSE "exit"

\* what do_config does with do_config_cmd's result:
\* "retry" with the fallback pair, "exit" or "return"
ConfigVerdict(ok, matrix) ==
    IF ok THEN "return"
    ELSE IF matrix = PrimaryCompilers THEN "retry"
    ELSE "exit"

\* do_config after a call of do_config_cmd returned
DoConfigResult ==
    /\ pc = "do_config_result"
    /\ LET verdict == ConfigVerdict(config_ok, compiler_matrix)
       IN IF verdict = "return"
          THEN /\ pc' = Head(stack)
               /\ stack' = Tail(stack)
               /\ UNCHANGED <<compiler_matrix, exit_code>>
          ELSE IF verdict = "retry"
          THEN /\ compiler_matrix' = FallbackCompilers
               /\ pc' = "do_config_cmd"
               /\ UNCHANGED <<stack, exit_code>>
          ELSE /\ pc' = "exited"
               /\ exit_code' = -1
               /\ UNCHANGED <<stack, compiler_matrix>>
    /\ UNCHANGED <<argv, cmd_line, cmd, cmd_args, cmd_argc, retry_avail_,
                   environ, test, doc, forced, kind, is_kind, config_ok,
                   actual_cmd, log, calls, offered>>

\* do_build after do_config returned
DoBuildRun ==
    /\ pc = "do_build_run"
    /\ environ' = IF test THEN [environ EXCEPT !.EUGENE_BUILD_TESTS = "1"]
                  ELSE environ
    /\ log' = log
              \o (IF test THEN << Event("setenv", "EUGENE_BUILD_TESTS", "1") >>
                  ELSE << >>)
              \o << Event("run", "ninja", "") >>
    /\ IF doc
       THEN pc' = "aborted" /\ stack' = stack
       ELSE pc' = Head(stack) /\ stack' = Tail(stack)
    /\ UNCHANGED <<argv, cmd_line, cmd, cmd_args, cmd_argc, retry_avail_, test,
                   doc, forced, kind, is_kind, compiler_matrix, config_ok,
                   actual_cmd, exit_code, calls, offered>>

\* parse after do_build returned
ParseAfterBuild ==
    /\ pc = "parse_after_build"
    /\ IF cmd = s_test
       THEN /\ pc' = IF cmd_argc = 1 /\ Contains(s_run, cmd_args[1])
                     THEN "do_run_test" ELSE "done"
            /\ log' = log
       ELSE IF cmd = s_doc
       THEN /\ pc' = "done"
            /\ log' = IF cmd_argc = 1 /\ Contains(s_up, cmd_args[1])
                      THEN Append(log, Event("print", "Uploading docs", ""))
                      ELSE log
       ELSE /\ pc' = "done"
            /\ log' = log
    /\ UNCHANGED <<argv, cmd_line, cmd, cmd_args, cmd_argc, stack,
                   retry_avail_, environ, test, doc, forced, kind, is_kind,
                   compiler_matrix, config_ok, actual_cmd, exit_code, calls,
                   offered>>

\* do_run_test
DoRunTest ==
    /\ pc = "do_run_test"
    /\ log' = Append(log, Event("run", "ctest", ""))
    /\ pc' = "done"
    /\ UNCHANGED <<argv, cmd_line, cmd, cmd_args, cmd_argc, stack,
                   retry_avail_, environ, test, doc, forced, kind, is_kind,
                   compiler_matrix, config_ok, actual_cmd, exit_code, calls,
                   offered>>

\* the commands do_lint passes to sp.run, in order
LintCommands == << "clang-format-all", "cmake-format" >>

\* do_lint
DoLint ==
    /\ pc = "do_lint"
    /\ log' = log \o [i \in 1..Len(LintCommands) |->
                        Event("run", LintCommands[i], "")]
    /\ pc' = "done"
    /\ UNCHANGED <<argv, cmd_line, cmd, cmd_args, cmd_argc, stack,
                   retry_avail_, environ, test, doc, forced, kind, is_kind,
                   compiler_matrix, config_ok, actual_cmd, exit_code, calls,
                   offered>>

\* variant of Confirmed: the empty answer declines
ConfirmedOnlyByY(out) == out = "y"

\* do_if's test of the lower-cased answer: the command runs unless
\* out != '' and out != 'y'
Confirmed(out) == ~(out # "" /\ out # "y")

\* do_if(cmd, msg, qprompt) when the user, if asked, types ans
do_if(command, msg, qprompt, ans) ==
    IF qprompt
    THEN << Event("prompt", msg, ""), Event("input", ans, "") >>
         \o (IF Confirmed(LowerAnswer(ans))
             THEN << Event("run", command, "") >> ELSE << >>)
    ELSE << Event("run", command, "") >>

\* do_clean(is_kind) when the user types a1 and then a2
CleanSteps(ask, a1, a2) ==
    do_if("rm -rf build", "Removing build directory", ask, a1)
    \o do_if("rm -f build.log", "Removing build logs", ask, a2)

\* do_clean
DoClean ==
    /\ pc = "do_clean"
    /\ IF is_kind
       THEN \E a1, a2 \in Answers : log' = log \o CleanSteps(is_kind, a1, a2)
       ELSE log' = log \o CleanSteps(is_kind, "", "")
    /\ pc' = "done"
    /\ UNCHANGED <<argv, cmd_line, cmd, cmd_args, cmd_argc, stack,
                   retry_avail_, environ, test, doc, forced, kind, is_kind,
                   compiler_matrix, config_ok, actual_cmd, exit_code, calls,
                   offered>>

Next ==
    \/ Main
    \/ Parse
    \/ Autocomplete
    \/ ParseRetry
    \/ DoBuild
    \/ DoConfig
    \/ DoConfigCmd
    \/ DoConfigResult
    \/ DoBuildRun
    \/ ParseAfterBuild
    \/ DoRunTest
    \/ DoLint
    \/ DoClean

Spec == Init /\ [][Next]_vars

-----------------------------------------------------------------------------
(* Readers of the histories, used by the properties below.                 *)

Indices(l) == 1..Len(l)
Has(l, k, w) == \E i \in Indices(l) : l[i].kind = k /\ l[i].what = w
IsSpawn(e) == e.kind \in {"run", "check_call"}
Spawned(l) == SelectSeq(l, IsSpawn)
IsRun(e) == e.kind = "run"
Ran(l) == [i \in Indices(SelectSeq(l, IsRun)) |-> SelectSeq(l, IsRun)[i].what]
IsSetCC(e) == e.kind = "setenv" /\ e.what = "CC"
IsCheckedFailure(e) == e.kind = "check_call" /\ e.val = "fail"
IsScan(e) == e.kind = "autocomplete" /\ e.what = "scan"
IsMatcherCall(e) == e.kind = "autocomplete"
IsMatcherPrompt(e) == e.kind = "prompt" /\ e.what = "Proceed with"
CleanPrompts == {"Removing build directory", "Removing build logs"}
IsCleanPrompt(e) == e.kind = "prompt" /\ e.what \in CleanPrompts
\* the position of the only event of l with this kind and text, 0 if none
Position(l, k, w) ==
    IF Has(l, k, w)
    THEN CHOOSE i \in Indices(l) : l[i].kind = k /\ l[i].what = w
    ELSE 0
\* the command line as parse first receives it
Typed == [i \in Indices(argv) |-> lower(argv[i])]

-----------------------------------------------------------------------------
(* C1: whenever parse is called with cmd_argc > 1, whatever the command,   *)
(* it stops at its assertion: nothing was spawned, printed or asked, the   *)
(* environment and the retry gate are untouched, and parse was entered     *)
(* once.                                                                   *)
C1_AbortBeforeAnyEffect ==
    (pc # "main" /\ Len(Typed) - 1 > 1) =>
        /\ pc \in {"parse", "aborted"}
        /\ (Len(calls) >= 1 => pc = "aborted")
        /\ Len(calls) <= 1
        /\ log = << >>
        /\ environ = InitEnviron
        /\ retry_avail_
        /\ offered = << >>

C1_Witness ==
    /\ pc = "aborted"
    /\ cmd_argc = 2
    /\ cmd \notin KnownCmds
    /\ Len(calls) = 1

(* C2: in every run the matcher scans at most once and asks at most once;  *)
(* once autocomplete has been called the gate is closed, whether or not a  *)
(* candidate qualified or was accepted; every call of autocomplete after   *)
(* the first finds the gate closed and suggests nothing.                   *)
C2_OneFuzzyAttempt ==
    /\ Len(SelectSeq(log, IsScan)) <= 1
    /\ Len(SelectSeq(log, IsMatcherPrompt)) <= 1
    /\ Len(offered) <= 1
    /\ (Len(SelectSeq(log, IsMatcherCall)) >= 1 => ~retry_avail_)
    /\ \A i, j \in Indices(log) :
          (i < j /\ IsMatcherCall(log[i]) /\ IsMatcherCall(log[j]))
              => (log[j].what = "closed" /\ ~Truthy(actual_cmd))

C2_Witness ==
    /\ pc = "done"
    /\ Len(SelectSeq(log, IsScan)) = 1
    /\ offered = << >>
    /\ ~retry_avail_
    /\ ~Truthy(actual_cmd)

(* C3: when the command typed is one of the eight known names and at most  *)
(* one sub-argument follows it, usage is never printed, autocomplete is    *)
(* never called and the retry gate stays open.                             *)
C3_KnownNeverFuzzy ==
    (pc # "main" /\ Len(Typed) \in {1, 2} /\ Typed[1] \in KnownCmds) =>
        /\ ~Has(log, "print", "usage")
        /\ Len(SelectSeq(log, IsMatcherCall)) = 0
        /\ pc \notin {"autocomplete", "parse_retry"}
        /\ offered = << >>
        /\ retry_avail_
        /\ Len(calls) <= 1

C3_Witness ==
    /\ pc = "done"
    /\ Len(Typed) = 2
    /\ Typed[1] = mrproper
    /\ Ran(log) = << "rm -rf build", "rm -f build.log" >>

(* C4: after the matcher's scan of an unrecognized token, a registry name  *)
(* has been offered exactly when its distance to the token is at most half *)
(* the token's length and no earlier registry name is that close; at most  *)
(* one name is offered, and none without a scan.                           *)
C4_FirstQualifyingOffered ==
    IF Len(SelectSeq(log, IsScan)) = 0
    THEN offered = << >>
    ELSE LET token == Typed[1]
             Close(i) == lev(token, AvailableParams[i]) <= Len(token) \div 2
         IN /\ Len(offered) <= 1
            /\ \A i \in Indices(AvailableParams) :
                  (\E k \in Indices(offered) : offered[k] = AvailableParams[i])
                  <=> (Close(i) /\ \A j \in 1..(i - 1) : ~Close(j))

C4_Witness ==
    /\ pc = "done"
    /\ Typed[1] = <<"t","i","n","t">>
    /\ offered = << s_test >>
    /\ 2 * lev(Typed[1], s_test) = Len(Typed[1])
    /\ lev(Typed[1], lint) < lev(Typed[1], s_test)
    /\ ~Truthy(actual_cmd)

(* C5: for `build` with one sub-argument that contains 'test' and not      *)
(* 'doc': EUGENE_BUILD_TESTS is set to "1" before any step of the config   *)
(* workflow runs, the build runner runs only after build-file generation   *)
(* succeeded, and the dispatch does not abort.                             *)
C5_FlagThenConfigThenBuild ==
    (/\ pc # "main"
     /\ Len(Typed) = 2
     /\ Typed[1] = build
     /\ Contains(s_test, Typed[2])
     /\ ~Contains(s_doc, Typed[2])) =>
        /\ \A i \in Indices(log) :
              log[i].kind = "check_call" =>
                  \E j \in 1..(i - 1) :
                      log[j] = Event("setenv", "EUGENE_BUILD_TESTS", "1")
        /\ \A i \in Indices(log) :
              log[i] = Event("run", "ninja", "") =>
                  \E j \in 1..(i - 1) :
                      log[j] = Event("check_call", "cmake", "ok")
        /\ pc # "aborted"
        /\ (pc = "done" => environ.EUGENE_BUILD_TESTS = "1")

(* C6: do_config tries gcc-11/g++-11 first and gcc/g++ only after a        *)
(* checked step failed under the first pair; when a checked step fails     *)
(* under both pairs the process exits with -1 and the build runner never   *)
(* runs; the process exits in do_config in no other case; once build-file  *)
(* generation succeeded, CC and CXX hold the pair it succeeded with.       *)
C6_ConfigFallback ==
    LET tried == SelectSeq(log, IsSetCC)
        failures == Len(SelectSeq(log, IsCheckedFailure))
    IN /\ Len(tried) <= 2
       /\ (Len(tried) >= 1 => tried[1].val = "gcc-11")
       /\ (Len(tried) = 2 =>
              /\ tried[2].val = "gcc"
              /\ \E i, j, k \in Indices(log) :
                    /\ i < j /\ j < k
                    /\ log[i] = Event("setenv", "CC", "gcc-11")
                    /\ IsCheckedFailure(log[j])
                    /\ log[k] = Event("setenv", "CC", "gcc"))
       /\ failures <= 2
       /\ (failures = 2 =>
              /\ pc \in {"do_config_result", "exited"}
              /\ (pc = "exited" => exit_code = -1)
              /\ ~Has(log, "run", "ninja"))
       /\ ((pc = "exited" /\ Len(argv) >= 1) =>
              (failures = 2 /\ exit_code = -1))
       /\ (Has(log, "run", "cmake") =>
              /\ pc # "exited"
              /\ environ.CC = (IF failures = 0 THEN "gcc-11" ELSE "gcc")
              /\ environ.CXX = (IF failures = 0 THEN "g++-11" ELSE "g++"))

C6_Witness ==
    /\ pc = "exited"
    /\ exit_code = -1
    /\ Len(SelectSeq(log, IsCheckedFailure)) = 2
    /\ environ.CC = "gcc"
    /\ Typed[1] = build

(* C7: `clean` or `mrproper` with no sub-argument, and with a sub-argument *)
(* that contains 'force' (with or without 'kind'), end alike: forced is    *)
(* true, do_clean is told not to ask, no confirmation is asked for, and    *)
(* the build directory and then the build log are removed.                 *)
C7_CleanDefaultIsForce ==
    (/\ pc \in {"do_clean", "done"}
     /\ cmd \in {clean, mrproper}
     /\ (cmd_argc = 0 \/ (cmd_argc = 1 /\ Contains(s_force, cmd_args[1])))) =>
        /\ forced
        /\ ~is_kind
        /\ Len(SelectSeq(log, IsCleanPrompt)) = 0
        /\ (pc = "done" => Ran(log) = << "rm -rf build", "rm -f build.log" >>)

C7_Witness ==
    /\ pc = "done"
    /\ cmd = clean
    /\ cmd_argc = 1
    /\ cmd_args[1] = s_kind \o s_force
    /\ kind
    /\ Ran(log) = << "rm -rf build", "rm -f build.log" >>

(* C8: `clean` with one sub-argument that contains 'kind' and not 'force'  *)
(* asks once before each of the two removals, and each removal runs, right *)
(* after its own answer, exactly when that answer lower-cased is empty or  *)
(* 'y'; with a sub-argument containing neither word nothing is asked and   *)
(* both removals run.                                                      *)
C8_KindAsksPerItem ==
    (/\ pc = "done"
     /\ cmd \in {clean, mrproper}
     /\ cmd_argc = 1
     /\ ~Contains(s_force, cmd_args[1])) =>
        IF Contains(s_kind, cmd_args[1])
        THEN LET p1 == Position(log, "prompt", "Removing build directory")
                 p2 == Position(log, "prompt", "Removing build logs")
                 r1 == Position(log, "run", "rm -rf build")
                 r2 == Position(log, "run", "rm -f build.log")
                 Yes(e) == e.kind = "input" /\ e.what \in {"", "y", "Y"}
             IN /\ Len(SelectSeq(log, IsCleanPrompt)) = 2
                /\ p1 > 0 /\ p2 > p1 /\ p2 < Len(log)
                /\ log[p1 + 1].kind = "input"
                /\ log[p2 + 1].kind = "input"
                /\ (r1 > 0 <=> Yes(log[p1 + 1]))
                /\ (r2 > 0 <=> Yes(log[p2 + 1]))
                /\ (r1 > 0 => (r1 = p1 + 2 /\ p2 = r1 + 1))
                /\ (r1 = 0 => p2 = p1 + 2)
                /\ (r2 > 0 => r2 = p2 + 2)
                /\ Len(Ran(log)) = (IF r1 > 0 THEN 1 ELSE 0)
                                   + (IF r2 > 0 THEN 1 ELSE 0)
        ELSE /\ Len(SelectSeq(log, IsCleanPrompt)) = 0
             /\ Ran(log) = << "rm -rf build", "rm -f build.log" >>

C8_Witness ==
    /\ pc = "done"
    /\ cmd = clean
    /\ cmd_argc = 1
    /\ cmd_args[1] = s_kind
    /\ Has(log, "input", "n")
    /\ Has(log, "input", "")
    /\ Ran(log) = << "rm -f build.log" >>

(* C9: parse is entered a second time exactly when autocomplete returned a *)
(* name (the one it offered, after the user typed 'y' or 'Y'), and then    *)
(* once, with that name and the sub-arguments and count first given; when  *)
(* autocomplete suggested nothing, parse ends without a second call and    *)
(* nothing was spawned.                                                    *)
C9_RedispatchOnce ==
    LET returned == Len(SelectSeq(log, IsMatcherCall)) >= 1
                    /\ pc \notin {"autocomplete", "parse_retry"}
    IN /\ Len(calls) <= 2
       /\ (Len(calls) = 2 =>
              /\ Len(offered) = 1
              /\ Has(log, "input", "y") \/ Has(log, "input", "Y")
              /\ calls[2].cmd = offered[1]
              /\ calls[2].cmd_args = Tail(Typed)
              /\ calls[2].cmd_argc = Len(Typed) - 1
              /\ calls[1].cmd = Typed[1]
              /\ calls[1].cmd_args = calls[2].cmd_args
              /\ calls[1].cmd_argc = calls[2].cmd_argc)
       /\ ((returned /\ Len(offered) = 1
            /\ (Has(log, "input", "y") \/ Has(log, "input", "Y")))
              => (Len(calls) = 2 \/ pc = "parse"))
       /\ ((returned /\ ~(Len(offered) = 1
            /\ (Has(log, "input", "y") \/ Has(log, "input", "Y"))))
              => (pc = "done" /\ Len(calls) = 1 /\ Spawned(log) = << >>))

C9_Witness ==
    /\ pc = "done"
    /\ Len(calls) = 2
    /\ calls[1].cmd = <<"b","u","i","l">>
    /\ calls[2] = [cmd |-> build, cmd_args |-> << s_run \o s_test >>,
                   cmd_argc |-> 1]
    /\ Has(log, "run", "ninja")

(* C10: `lint` with no sub-argument runs the code formatter and the linter *)
(* clang-tidy.                                                             *)
C10_LintRunsFormatterAndLinter ==
    (pc = "done" /\ Typed = << lint >>) =>
        /\ Has(log, "run", "clang-format-all")
        /\ Has(log, "run", "clang-tidy")

=============================================================================
